---- MODULE Spec2Model ----
(***************************************************************************)
(* Model of the WhatsApp polling bot (src/app.py and                       *)
(* src/twillioexplanation.py): number normalisation, the one-shot direct   *)
(* message, conversation and participant provisioning, the polling loop,   *)
(* and the provider (Twilio) state the script reads and writes.            *)
(*                                                                         *)
(* Strings the code takes apart (phone numbers, authors) are sequences of  *)
(* one-character strings; strings it only compares (labels, bodies) are    *)
(* TLA+ strings.  Message and conversation sids are positive integers      *)
(* assigned by the provider in creation order; None is 0.                  *)
(***************************************************************************)
EXTENDS Integers, Sequences, FiniteSets, TLC

VARIABLES
    entry,                  \* which script runs: "app" or "explanation"
    PHONE_NUMBER,           \* normalised external address
    MS_NUMBER,              \* normalised proxy (sender) address
    remote_conversations,   \* provider: conversations of the service, in list order
    remote_participants,    \* provider: bindings of the conversation the lookup selects
    remote_messages,        \* provider: messages of that conversation, oldest first
    direct_calls,           \* direct-message create calls issued, over all runs
    pc,                     \* position of the main thread
    runs,                   \* number of process runs started so far
    setup_calls,            \* provider calls issued by this run before the poll loop
    existing_conversations, \* local: result of service.conversations.list()
    conversation,           \* local: sid of the conversation in use, or None
    participants,           \* local: result of conversation.participants.list()
    messages,               \* local: result of the last conversation.messages.list()
    last_sid,               \* local: the poll cursor
    liveness_thread,        \* the non-daemon Flask thread is running
    exited,                 \* the operating-system process has ended
    row,                    \* ticks in a row that fetched the list now in messages:
                            \*   "none", "first" or "later"
    sid_before,             \* last_sid when the latest tick fetched its list
    tick_call,              \* create-message call issued by the latest tick, or NoCall
    first_call,             \* create-message call issued by the first tick of that row
    number,                 \* format_number harness: the argument
    formatted,              \* format_number harness: results of successive applications
    replied_to              \* sid of the message each reply call answered, over all runs

vars == << entry, PHONE_NUMBER, MS_NUMBER, remote_conversations, remote_participants,
           remote_messages, direct_calls, pc, runs, setup_calls,
           existing_conversations, conversation, participants, messages, last_sid,
           liveness_thread, exited, row, sid_before, tick_call, first_call,
           number, formatted, replied_to >>

----------------------------------------------------------------------------
(* Bounds *)

MaxMsgs == 2

MaxRuns == 2

MaxConvs == 2

MaxPieces == 3

----------------------------------------------------------------------------
(* Literals of the code *)

None == 0

Prefix == << "w", "h", "a", "t", "s", "a", "p", "p", ":" >>

System == << "s", "y", "s", "t", "e", "m" >>

Label == "Friendly Conversation"

InitialBody == "This is a message that I want to send over WhatsApp with Twilio!"

(* The reply text, without the check-mark sign it starts with *)
ReplyBody == "Message received. I am the server."

Whitespace == { " ", "\t", "\n" }

NoCall == [op |-> "none", ok |-> TRUE, args |-> << >>]

Call(op, ok, args) == [op |-> op, ok |-> ok, args |-> args]

----------------------------------------------------------------------------
(* format_number: str.replace, str.strip and the f-string *)

RECURSIVE Replace(_, _)
Replace(s, old) ==
    IF Len(s) < Len(old) THEN s
    ELSE IF SubSeq(s, 1, Len(old)) = old
         THEN Replace(SubSeq(s, Len(old) + 1, Len(s)), old)
         ELSE << Head(s) >> \o Replace(Tail(s), old)

RECURSIVE LStrip(_)
LStrip(s) ==
    IF s # << >> /\ Head(s) \in Whitespace THEN LStrip(Tail(s)) ELSE s

RECURSIVE RStrip(_)
RStrip(s) ==
    IF s # << >> /\ s[Len(s)] \in Whitespace
    THEN RStrip(SubSeq(s, 1, Len(s) - 1)) ELSE s

Strip(s) == RStrip(LStrip(s))

format_number_unprefixed(n) == Strip(Replace(n, Prefix))

format_number(n) == Prefix \o Strip(Replace(n, Prefix))

(* Number of (possibly overlapping) places of s where old occurs *)
Occurrences(s, old) ==
    Cardinality({ i \in 1..Len(s) :
        i + Len(old) - 1 <= Len(s) /\ SubSeq(s, i, i + Len(old) - 1) = old })

StartsWith(s, old) == Len(s) >= Len(old) /\ SubSeq(s, 1, Len(old)) = old

----------------------------------------------------------------------------
(* Configuration values the environment may hold *)

Whats == << "w", "h", "a", "t", "s" >>

App == << "a", "p", "p", ":" >>

EnvPhoneNumbers ==
    { << "1" >>,                                   \* raw
      Prefix \o << "1" >>,                         \* pre-prefixed
      Prefix \o Prefix \o << "1" >>,               \* double-prefixed
      << " ", "1", " " >>,                         \* surrounded by blanks
      System,                                      \* the word the bot signs with
      Whats \o Prefix \o App \o << "1" >> }        \* token split around a token

EnvMsNumbers == { << "2" >>, Prefix \o << "2" >> }

OtherAddress == Prefix \o << "9" >>

Pieces == { Prefix, Whats, App, << " " >>, << "1" >>, << "W" >> }

RECURSIVE Concats(_)
Concats(k) ==
    IF k = 0 THEN { << >> }
    ELSE Concats(k - 1) \cup { s \o p : s \in Concats(k - 1), p \in Pieces }

----------------------------------------------------------------------------
(* Provider state at start-up *)

Labels == { Label, "friendly conversation" }

Conversation(sid, name) == [sid |-> sid, friendly_name |-> name]

InitConversations ==
    UNION { { [i \in 1..n |-> Conversation(i, f[i])] : f \in [1..n -> Labels] }
            : n \in 0..MaxConvs }

Binding(address, proxy) == [address |-> address, proxy_address |-> proxy]

Message(sid, author, body) == [sid |-> sid, author |-> author, body |-> body]

(* next((c for c in conversations if c.friendly_name == 'Friendly Conversation'), None) *)
first_match_ignoring_case(convs) ==
    LET hits == { i \in 1..Len(convs) : convs[i].friendly_name \in Labels }
    IN  IF hits = {} THEN None
        ELSE convs[CHOOSE i \in hits : \A j \in hits : i <= j].sid

first_match_last(convs) ==
    LET hits == { i \in 1..Len(convs) : convs[i].friendly_name = Label }
    IN  IF hits = {} THEN None
        ELSE convs[CHOOSE i \in hits : \A j \in hits : j <= i].sid

first_match_other_label(convs) ==
    LET hits == { i \in 1..Len(convs) : convs[i].friendly_name = "friendly conversation" }
    IN  IF hits = {} THEN None
        ELSE convs[CHOOSE i \in hits : \A j \in hits : i <= j].sid

first_match(convs) ==
    LET hits == { i \in 1..Len(convs) : convs[i].friendly_name = Label }
    IN  IF hits = {} THEN None
        ELSE convs[CHOOSE i \in hits : \A j \in hits : i <= j].sid

(* any(p.messaging_binding['address'] == phone_number for p in participants) *)
already_exists_by_proxy(parts, phone_number) ==
    \E i \in 1..Len(parts) : parts[i].proxy_address = phone_number

already_exists_never(parts, phone_number) ==
    FALSE

already_exists(parts, phone_number) ==
    \E i \in 1..Len(parts) : parts[i].address = phone_number

(* if messages: last_msg = messages[-1];                                   *)
(* if last_msg.sid != last_sid and last_msg.author == user_number          *)
should_reply_any_sid(msgs, cursor, user_number) ==
    /\ msgs # << >>
    /\ msgs[Len(msgs)].author = user_number

should_reply_any_author(msgs, cursor, user_number) ==
    /\ msgs # << >>
    /\ msgs[Len(msgs)].sid # cursor

should_reply_empty_too(msgs, cursor, user_number) ==
    \/ msgs = << >>
    \/ /\ msgs[Len(msgs)].sid # cursor
       /\ msgs[Len(msgs)].author = user_number

should_reply_last_from_user(msgs, cursor, user_number) ==
    LET mine == { i \in 1..Len(msgs) : msgs[i].author = user_number }
    IN  /\ mine # {}
        /\ msgs[CHOOSE i \in mine : \A j \in mine : j <= i].sid # cursor

should_reply_unless_first(msgs, cursor, user_number) ==
    /\ msgs # << >>
    /\ cursor # None
    /\ msgs[Len(msgs)].sid # cursor
    /\ msgs[Len(msgs)].author = user_number

should_reply(msgs, cursor, user_number) ==
    /\ msgs # << >>
    /\ msgs[Len(msgs)].sid # cursor
    /\ msgs[Len(msgs)].author = user_number

(* src/app.py has the same four computations written out in its module     *)
(* body instead of calling the functions of src/twillioexplanation.py       *)
app_normalize(n) == Prefix \o Strip(Replace(n, Prefix))

app_conversation(convs) ==
    LET hits == { i \in 1..Len(convs) : convs[i].friendly_name = Label }
    IN  IF hits = {} THEN None
        ELSE convs[CHOOSE i \in hits : \A j \in hits : i <= j].sid

app_already_added(parts, phone_number) ==
    \E i \in 1..Len(parts) : parts[i].address = phone_number

app_should_reply(msgs, cursor, phone_number) ==
    /\ msgs # << >>
    /\ msgs[Len(msgs)].sid # cursor
    /\ msgs[Len(msgs)].author = phone_number

(* The computation of script e *)
normalized(e, n) ==
    IF e = "app" THEN app_normalize(n) ELSE format_number(n)

selected(e, convs) ==
    IF e = "app" THEN app_conversation(convs) ELSE first_match(convs)

is_bound(e, parts, phone_number) ==
    IF e = "app" THEN app_already_added(parts, phone_number)
    ELSE already_exists(parts, phone_number)

reacts(e, msgs, cursor, phone_number) ==
    IF e = "app" THEN app_should_reply(msgs, cursor, phone_number)
    ELSE should_reply(msgs, cursor, phone_number)

(* Where the script goes once the participant is ensured *)
AfterSetup == IF entry = "app" THEN "start_thread" ELSE "list_messages"

LocalsAtStart ==
    /\ pc = "send"
    /\ setup_calls = << >>
    /\ existing_conversations = << >>
    /\ conversation = None
    /\ participants = << >>
    /\ messages = << >>
    /\ last_sid = None
    /\ liveness_thread = FALSE
    /\ exited = FALSE
    /\ row = "none"
    /\ sid_before = None
    /\ tick_call = NoCall
    /\ first_call = NoCall

Init ==
    /\ entry \in { "app", "explanation" }
    /\ PHONE_NUMBER \in { normalized(entry, n) : n \in EnvPhoneNumbers }
    /\ MS_NUMBER \in { normalized(entry, n) : n \in EnvMsNumbers }
    /\ remote_conversations \in InitConversations
    /\ remote_participants \in
         IF first_match(remote_conversations) = None THEN { << >> }
         ELSE { << >>,
                << Binding(PHONE_NUMBER, MS_NUMBER) >>,
                << Binding(OtherAddress, MS_NUMBER) >> }
    /\ remote_messages = << >>
    /\ direct_calls = << >>
    /\ runs = 1
    /\ LocalsAtStart
    /\ number = << >>
    /\ replied_to = << >>
    /\ formatted = << >>

----------------------------------------------------------------------------
(* The main thread, one action per provider call *)

ConfigVars == << entry, PHONE_NUMBER, MS_NUMBER, number, formatted >>

TickVars == << messages, last_sid, row, sid_before, tick_call, first_call >>

ProcessVars == << liveness_thread, exited, runs >>

Logged(op, ok, args) == Append(setup_calls, Call(op, ok, args))

DirectCall(ok) ==
    [run |-> runs, ok |-> ok, from_ |-> MS_NUMBER, to |-> PHONE_NUMBER,
     body |-> InitialBody]

(* client.messages.create(body=..., from_=MS_NUMBER, to=PHONE_NUMBER) *)
send_initial_message_unless_known ==
    /\ pc = "send"
    /\ pc' = "list_conversations"
    /\ IF first_match(remote_conversations) = None
       THEN /\ direct_calls' = Append(direct_calls, DirectCall(TRUE))
            /\ setup_calls' = Logged("messages.create", TRUE, << MS_NUMBER, PHONE_NUMBER >>)
       ELSE UNCHANGED << direct_calls, setup_calls >>
    /\ UNCHANGED << ConfigVars, replied_to, TickVars, ProcessVars, remote_conversations,
                    remote_participants, remote_messages, existing_conversations,
                    conversation, participants >>

send_initial_message ==
    /\ pc = "send"
    /\ pc' = "list_conversations"
    /\ direct_calls' = Append(direct_calls, DirectCall(TRUE))
    /\ setup_calls' = Logged("messages.create", TRUE, << MS_NUMBER, PHONE_NUMBER >>)
    /\ UNCHANGED << ConfigVars, replied_to, TickVars, ProcessVars, remote_conversations,
                    remote_participants, remote_messages, existing_conversations,
                    conversation, participants >>

(* service.conversations.list() and the lookup by friendly name *)
list_conversations_of(e) ==
    /\ pc = "list_conversations"
    /\ existing_conversations' = remote_conversations
    /\ conversation' = selected(e, remote_conversations)
    /\ pc' = IF conversation' # None THEN "list_participants" ELSE "create_conversation"
    /\ setup_calls' = Logged("conversations.list", TRUE, << >>)
    /\ UNCHANGED << ConfigVars, replied_to, TickVars, ProcessVars, remote_conversations,
                    remote_participants, remote_messages, direct_calls, participants >>

(* The sid the provider gives a new conversation: one not in use *)
NewSid(convs) ==
    LET used == { convs[i].sid : i \in 1..Len(convs) } \cup { 0 }
    IN  1 + CHOOSE m \in used : \A k \in used : k <= m

list_conversations == list_conversations_of(entry)

(* service.conversations.create(friendly_name='Friendly Conversation') *)
create_conversation ==
    /\ pc = "create_conversation"
    /\ LET sid == NewSid(remote_conversations)
       IN  /\ remote_conversations' =
                Append(remote_conversations, Conversation(sid, Label))
           /\ conversation' = sid
    /\ pc' = "list_participants"
    /\ setup_calls' = Logged("conversations.create", TRUE, << Label >>)
    /\ UNCHANGED << ConfigVars, replied_to, TickVars, ProcessVars, remote_participants,
                    remote_messages, direct_calls, existing_conversations,
                    participants >>

(* conversation.participants.list() and the membership test *)
list_participants_then_poll ==
    /\ pc = "list_participants"
    /\ participants' = remote_participants
    /\ pc' = AfterSetup
    /\ setup_calls' = Logged("participants.list", TRUE, << >>)
    /\ UNCHANGED << ConfigVars, replied_to, TickVars, ProcessVars, remote_conversations,
                    remote_participants, remote_messages, direct_calls,
                    existing_conversations, conversation >>

list_participants_of(e) ==
    /\ pc = "list_participants"
    /\ participants' = remote_participants
    /\ pc' = IF is_bound(e, remote_participants, PHONE_NUMBER)
             THEN AfterSetup ELSE "create_participant"
    /\ setup_calls' = Logged("participants.list", TRUE, << >>)
    /\ UNCHANGED << ConfigVars, replied_to, TickVars, ProcessVars, remote_conversations,
                    remote_participants, remote_messages, direct_calls,
                    existing_conversations, conversation >>

list_participants == list_participants_of(entry)

(* conversation.participants.create(messaging_binding_address=...,          *)
(*                                  messaging_binding_proxy_address=...)    *)
create_participant ==
    /\ pc = "create_participant"
    /\ remote_participants' =
         Append(remote_participants, Binding(PHONE_NUMBER, MS_NUMBER))
    /\ pc' = AfterSetup
    /\ setup_calls' = Logged("participants.create", TRUE, << PHONE_NUMBER, MS_NUMBER >>)
    /\ UNCHANGED << ConfigVars, replied_to, TickVars, ProcessVars, remote_conversations,
                    remote_messages, direct_calls, existing_conversations,
                    conversation, participants >>

(* Thread(target=lambda: app.run(port=8080)).start(): a non-daemon thread *)
start_liveness_thread ==
    /\ pc = "start_thread"
    /\ liveness_thread' = TRUE
    /\ pc' = "list_messages"
    /\ UNCHANGED << ConfigVars, replied_to, TickVars, exited, runs, remote_conversations,
                    remote_participants, remote_messages, direct_calls, setup_calls,
                    existing_conversations, conversation, participants >>

(* messages = conversation.messages.list() and the test on its last element *)
list_messages_of(e) ==
    /\ pc = "list_messages"
    /\ messages' = remote_messages
    /\ row' = IF row # "none" /\ remote_messages = messages THEN "later" ELSE "first"
    /\ sid_before' = last_sid
    /\ first_call' = IF row' = "first" THEN NoCall
                     ELSE IF row = "first" THEN tick_call ELSE first_call
    /\ tick_call' = NoCall
    /\ pc' = IF reacts(e, remote_messages, last_sid, PHONE_NUMBER)
             THEN "create_message" ELSE "list_messages"
    /\ UNCHANGED << ConfigVars, replied_to, ProcessVars, last_sid, remote_conversations,
                    remote_participants, remote_messages, direct_calls, setup_calls,
                    existing_conversations, conversation, participants >>

list_messages == list_messages_of(entry)

(* conversation.messages.create(author="system", body=reply);              *)
(* last_sid = last_msg.sid.  The provider appends the reply iff `stored`.  *)
ReplyStep(stored, new_sid) ==
    /\ pc = "create_message"
    /\ remote_messages' =
         IF stored
         THEN Append(remote_messages,
                     Message(Len(remote_messages) + 1, System, ReplyBody))
         ELSE remote_messages
    /\ tick_call' = Call("messages.create", TRUE, << System, ReplyBody >>)
    /\ last_sid' = new_sid
    /\ pc' = "list_messages"
    /\ replied_to' = Append(replied_to, messages[Len(messages)].sid)
    /\ UNCHANGED << ConfigVars, ProcessVars, messages, row, sid_before, first_call,
                    remote_conversations, remote_participants, direct_calls,
                    setup_calls, existing_conversations, conversation, participants >>

create_message_reply_sid == ReplyStep(TRUE, Len(remote_messages) + 1)

create_message == ReplyStep(TRUE, messages[Len(messages)].sid)

(* The same step against a stub conversation that records the call and     *)
(* keeps returning the list it was given                                   *)
stub_create_message == ReplyStep(FALSE, messages[Len(messages)].sid)

(* Any provider call may raise; nothing catches it, so the main thread ends. *)
(* The interpreter then waits for the non-daemon threads still running.      *)
(* A call that raises is taken to have changed nothing at the provider.      *)
CallPcs == { "send", "list_conversations", "create_conversation",
             "list_participants", "create_participant", "list_messages",
             "create_message" }

FailedSetupCall ==
    CASE pc = "send" -> Call("messages.create", FALSE, << MS_NUMBER, PHONE_NUMBER >>)
      [] pc = "list_conversations" -> Call("conversations.list", FALSE, << >>)
      [] pc = "create_conversation" -> Call("conversations.create", FALSE, << Label >>)
      [] pc = "list_participants" -> Call("participants.list", FALSE, << >>)
      [] pc = "create_participant" ->
             Call("participants.create", FALSE, << PHONE_NUMBER, MS_NUMBER >>)

provider_error ==
    /\ pc \in CallPcs
    /\ pc' = "failed"
    /\ exited' = ~liveness_thread
    /\ direct_calls' = IF pc = "send" THEN Append(direct_calls, DirectCall(FALSE))
                       ELSE direct_calls
    /\ setup_calls' = IF pc \in { "list_messages", "create_message" } THEN setup_calls
                      ELSE Append(setup_calls, FailedSetupCall)
    /\ tick_call' = IF pc = "create_message"
                    THEN Call("messages.create", FALSE, << System, ReplyBody >>)
                    ELSE tick_call
    /\ UNCHANGED << ConfigVars, replied_to, messages, last_sid, row, sid_before, first_call,
                    liveness_thread, runs, remote_conversations, remote_participants,
                    remote_messages, existing_conversations, conversation,
                    participants >>

(* The dead process is replaced by a new run of the same script *)
restart ==
    /\ pc = "failed"
    /\ runs < MaxRuns
    /\ runs' = runs + 1
    /\ pc' = "send"
    /\ setup_calls' = << >>
    /\ existing_conversations' = << >>
    /\ conversation' = None
    /\ participants' = << >>
    /\ messages' = << >>
    /\ last_sid' = None
    /\ liveness_thread' = FALSE
    /\ exited' = FALSE
    /\ row' = "none"
    /\ sid_before' = None
    /\ tick_call' = NoCall
    /\ first_call' = NoCall
    /\ UNCHANGED << ConfigVars, replied_to, remote_conversations, remote_participants,
                    remote_messages, direct_calls >>

----------------------------------------------------------------------------
(* The environment: somebody posts into the conversation *)

Authors == { PHONE_NUMBER, System, OtherAddress }

InboundBody == "hi"

inbound_message ==
    /\ first_match(remote_conversations) # None
    /\ Cardinality({ i \in 1..Len(remote_messages) : remote_messages[i].body = InboundBody })
         < MaxMsgs
    /\ \E a \in Authors :
         remote_messages' =
           Append(remote_messages, Message(Len(remote_messages) + 1, a, InboundBody))
    /\ UNCHANGED << ConfigVars, replied_to, TickVars, ProcessVars, pc, remote_conversations,
                    remote_participants, direct_calls, setup_calls,
                    existing_conversations, conversation, participants >>

----------------------------------------------------------------------------
(* The script against the provider *)

Next ==
    \/ send_initial_message
    \/ list_conversations
    \/ create_conversation
    \/ list_participants
    \/ create_participant
    \/ start_liveness_thread
    \/ list_messages
    \/ create_message
    \/ provider_error
    \/ restart
    \/ inbound_message

Spec == Init /\ [][Next]_vars

(* One run in which no provider call raises.  The main thread is never      *)
(* blocked: every statement returns and time.sleep(1) ends, so the step it  *)
(* is at is eventually taken.  Nothing obliges anyone to write messages.    *)
MainThread ==
    \/ send_initial_message
    \/ list_conversations
    \/ create_conversation
    \/ list_participants
    \/ create_participant
    \/ start_liveness_thread
    \/ list_messages
    \/ create_message

LiveNext ==
    \/ MainThread
    \/ inbound_message

LiveSpec == Init /\ [][LiveNext]_vars /\ WF_vars(MainThread)

----------------------------------------------------------------------------
(* poll_messages(conversation, user_number) against a stub conversation    *)
(* whose list grows only when the test appends to it                       *)

FeedInit ==
    /\ entry = "explanation"
    /\ PHONE_NUMBER \in { format_number(n) : n \in EnvPhoneNumbers }
    /\ MS_NUMBER = format_number(<< "2" >>)
    /\ remote_conversations = << Conversation(1, Label) >>
    /\ remote_participants = << Binding(PHONE_NUMBER, MS_NUMBER) >>
    /\ remote_messages = << >>
    /\ direct_calls = << >>
    /\ runs = 1
    /\ pc = "list_messages"
    /\ setup_calls = << >>
    /\ existing_conversations = << >>
    /\ conversation = 1
    /\ participants = << >>
    /\ messages = << >>
    /\ last_sid = None
    /\ liveness_thread = FALSE
    /\ exited = FALSE
    /\ row = "none"
    /\ sid_before = None
    /\ tick_call = NoCall
    /\ first_call = NoCall
    /\ number = << >>
    /\ replied_to = << >>
    /\ formatted = << >>

FeedNext ==
    \/ list_messages
    \/ stub_create_message
    \/ inbound_message

FeedSpec == FeedInit /\ [][FeedNext]_vars

----------------------------------------------------------------------------
(* format_number applied, and applied again to its own result *)

NormInit ==
    /\ number \in Concats(MaxPieces)
    /\ replied_to = << >>
    /\ formatted = << >>
    /\ entry = "explanation"
    /\ PHONE_NUMBER = << >>
    /\ MS_NUMBER = << >>
    /\ remote_conversations = << >>
    /\ remote_participants = << >>
    /\ remote_messages = << >>
    /\ direct_calls = << >>
    /\ runs = 1
    /\ pc = "format"
    /\ setup_calls = << >>
    /\ existing_conversations = << >>
    /\ conversation = None
    /\ participants = << >>
    /\ messages = << >>
    /\ last_sid = None
    /\ liveness_thread = FALSE
    /\ exited = FALSE
    /\ row = "none"
    /\ sid_before = None
    /\ tick_call = NoCall
    /\ first_call = NoCall

apply_format_number ==
    /\ pc = "format"
    /\ Len(formatted) < 2
    /\ formatted' = Append(formatted,
                           format_number(IF formatted = << >> THEN number
                                         ELSE formatted[Len(formatted)]))
    /\ UNCHANGED << entry, PHONE_NUMBER, MS_NUMBER, number, replied_to, remote_conversations,
                    remote_participants, remote_messages, direct_calls, pc, runs,
                    setup_calls, existing_conversations, conversation, participants,
                    messages, last_sid, liveness_thread, exited, row, sid_before,
                    tick_call, first_call >>

NormNext == apply_format_number

NormSpec == NormInit /\ [][NormNext]_vars

----------------------------------------------------------------------------
(* One tick of the poll loop on any list and any cursor *)

TickInit ==
    /\ entry = "explanation"
    /\ PHONE_NUMBER \in { format_number(n) : n \in EnvPhoneNumbers }
    /\ MS_NUMBER = format_number(<< "2" >>)
    /\ remote_conversations = << Conversation(1, Label) >>
    /\ remote_participants = << Binding(PHONE_NUMBER, MS_NUMBER) >>
    /\ remote_messages \in
         UNION { { [i \in 1..n |-> Message(i, f[i], InboundBody)] : f \in [1..n -> Authors] }
                 : n \in 0..MaxMsgs }
    /\ direct_calls = << >>
    /\ runs = 1
    /\ pc = "list_messages"
    /\ setup_calls = << >>
    /\ existing_conversations = << >>
    /\ conversation = 1
    /\ participants = << >>
    /\ messages = << >>
    /\ last_sid \in 0..MaxMsgs
    /\ liveness_thread = FALSE
    /\ exited = FALSE
    /\ row = "none"
    /\ sid_before = None
    /\ tick_call = NoCall
    /\ first_call = NoCall
    /\ number = << >>
    /\ replied_to = << >>
    /\ formatted = << >>

TickSpec == TickInit /\ [][FeedNext]_vars

(* The start of a run, up to the conversation in use, against a service     *)
(* whose list returns any labels in any order of sids                       *)
LookupLabels == { Label, "friendly conversation", "Friendly Conversation " }

LookupConversations ==
    UNION { { [i \in 1..n |-> Conversation(sids[i], f[i])] :
                sids \in { t \in [1..n -> 1..MaxConvs + 1] :
                             \A a, b \in 1..n : a # b => t[a] # t[b] },
                f \in [1..n -> LookupLabels] }
            : n \in 0..MaxConvs }

LookupInit ==
    /\ entry \in { "app", "explanation" }
    /\ PHONE_NUMBER = format_number(<< "1" >>)
    /\ MS_NUMBER = format_number(<< "2" >>)
    /\ remote_conversations \in LookupConversations
    /\ remote_participants = << >>
    /\ remote_messages = << >>
    /\ direct_calls = << >>
    /\ runs = 1
    /\ LocalsAtStart
    /\ number = << >>
    /\ replied_to = << >>
    /\ formatted = << >>

LookupNext ==
    \/ send_initial_message
    \/ list_conversations
    \/ create_conversation

LookupSpec == LookupInit /\ [][LookupNext]_vars

----------------------------------------------------------------------------
(* Properties *)

Last(s) == s[Len(s)]

ReplyCall == Call("messages.create", TRUE, << System, ReplyBody >>)

Ticked == row # "none"

NumCalls(op) ==
    Cardinality({ i \in 1..Len(setup_calls) : setup_calls[i].op = op })

Listed(op) == \E i \in 1..Len(setup_calls) : setup_calls[i] = Call(op, TRUE, << >>)

HasLabel(convs) == \E i \in 1..Len(convs) : convs[i].friendly_name = Label

(* C1: when a tick fetches the list the tick before it fetched, and the     *)
(* last message of that list is from the external address, the first tick   *)
(* that fetched the list issued the one create-message call and this tick   *)
(* issues none.                                                             *)
C1_ReactsOncePerNewest ==
    (row = "later" /\ messages # << >> /\ Last(messages).author = PHONE_NUMBER) =>
        /\ pc # "create_message"
        /\ tick_call = NoCall
        /\ first_call = ReplyCall

C1_Witness ==
    /\ row = "later"
    /\ messages # << >>
    /\ Last(messages).author = PHONE_NUMBER
    /\ first_call = ReplyCall
    /\ tick_call = NoCall
    /\ last_sid = Last(messages).sid
    /\ pc = "list_messages"

(* C2: a tick that fetched a non-empty list posts the reply (author         *)
(* "system", the fixed body) exactly when the last message's sid differs    *)
(* from the cursor and its author is the external address.                  *)
C2_ReplyIffNewFromUser ==
    (Ticked /\ messages # << >>) =>
        LET due == /\ Last(messages).sid # sid_before
                   /\ Last(messages).author = PHONE_NUMBER
        IN  /\ pc = "create_message" => due
            /\ tick_call # NoCall => (due /\ tick_call = ReplyCall)
            /\ (pc # "create_message" /\ tick_call = NoCall) => ~due

C2_Witness ==
    /\ Ticked
    /\ messages # << >>
    /\ Last(messages).author = PHONE_NUMBER
    /\ Last(messages).sid = sid_before
    /\ sid_before # None
    /\ tick_call = NoCall
    /\ pc = "list_messages"

(* C3: the normalised external address is never "system", a tick whose      *)
(* newest message is authored "system" issues no create-message call, and   *)
(* so each run posts at most one reply per message of the external address. *)
C3_NoSelfReply ==
    /\ PHONE_NUMBER # System
    /\ (Ticked /\ messages # << >> /\ Last(messages).author = System) =>
           (pc # "create_message" /\ tick_call = NoCall)
    /\ Cardinality({ i \in 1..Len(remote_messages) :
                        /\ remote_messages[i].author = System
                        /\ remote_messages[i].body = ReplyBody })
         <= runs * Cardinality({ i \in 1..Len(remote_messages) :
                                    remote_messages[i].author = PHONE_NUMBER })

C3_Witness ==
    /\ Ticked
    /\ messages # << >>
    /\ Last(messages) = Message(Len(messages), System, ReplyBody)
    /\ last_sid = Len(messages) - 1
    /\ tick_call = NoCall
    /\ pc = "list_messages"

(* C4: a tick that fetched an empty list issues no create-message call and  *)
(* leaves the cursor as it was.                                             *)
C4_EmptyListNoReaction ==
    (Ticked /\ messages = << >>) =>
        /\ pc # "create_message"
        /\ tick_call = NoCall
        /\ last_sid = sid_before

C4_Witness ==
    /\ Ticked
    /\ messages = << >>
    /\ last_sid # None
    /\ tick_call = NoCall
    /\ pc = "list_messages"

(* C5: once the conversation lookup of a run is over, the run has issued    *)
(* no create-conversation call if the listed conversations held the label   *)
(* and exactly one otherwise; never more than one.                          *)
C5_FindOrCreate ==
    /\ NumCalls("conversations.create") <= 1
    /\ (Listed("conversations.list") /\ pc # "create_conversation") =>
           NumCalls("conversations.create") =
               IF HasLabel(existing_conversations) THEN 0 ELSE 1

C5_Witness ==
    /\ runs = 2
    /\ Listed("conversations.list")
    /\ pc # "create_conversation"
    /\ Len(existing_conversations) = 3
    /\ existing_conversations[3].friendly_name = Label
    /\ ~HasLabel(SubSeq(existing_conversations, 1, 2))
    /\ NumCalls("conversations.create") = 0
    /\ remote_conversations = existing_conversations

(* C6: once the participant check of a run is over, the run has issued no   *)
(* create-participant call if a listed binding had the external address,    *)
(* and exactly one, with that address and the proxy address, otherwise.     *)
C6_EnsureParticipant ==
    LET created == { i \in 1..Len(setup_calls) :
                        setup_calls[i].op = "participants.create" }
        bound == \E i \in 1..Len(participants) :
                    participants[i].address = PHONE_NUMBER
    IN  /\ Cardinality(created) <= 1
        /\ (Listed("participants.list") /\ pc # "create_participant") =>
               IF bound THEN created = {}
               ELSE /\ Cardinality(created) = 1
                    /\ \A i \in created :
                         setup_calls[i].args = << PHONE_NUMBER, MS_NUMBER >>

C6_Witness ==
    /\ Listed("participants.list")
    /\ participants = << Binding(OtherAddress, MS_NUMBER) >>
    /\ remote_participants = << Binding(OtherAddress, MS_NUMBER),
                                Binding(PHONE_NUMBER, MS_NUMBER) >>
    /\ NumCalls("participants.create") = 1

(* C7: applying format_number to its own result changes nothing.            *)
C7_Idempotent ==
    Len(formatted) = 2 => formatted[2] = formatted[1]

(* C8: every address passed to a provider call (the sender and recipient of *)
(* the direct message, the address and proxy address of a created binding)  *)
(* starts with the prefix and holds it exactly once.                        *)
C8_ExactlyOnePrefix ==
    \A a \in { direct_calls[i].to : i \in 1..Len(direct_calls) }
             \cup { direct_calls[i].from_ : i \in 1..Len(direct_calls) }
             \cup UNION { { setup_calls[i].args[1], setup_calls[i].args[2] } :
                           i \in { j \in 1..Len(setup_calls) :
                                      setup_calls[j].op = "participants.create" } } :
        StartsWith(a, Prefix) /\ Occurrences(a, Prefix) = 1

(* C9: once a provider call has failed, the process has terminated.         *)
C9_ErrorTerminatesProcess ==
    pc = "failed" => exited

(* C10: every run that is past its first step has issued exactly one        *)
(* direct message, a run still at its first step none, whatever the         *)
(* provider holds.                                                          *)
C10_OneDirectMessagePerRun ==
    \A r \in 1..runs :
        Cardinality({ i \in 1..Len(direct_calls) : direct_calls[i].run = r })
            = IF r = runs /\ pc = "send" THEN 0 ELSE 1

C10_Witness ==
    /\ runs = 2
    /\ pc = "list_messages"
    /\ HasLabel(existing_conversations)
    /\ Len(direct_calls) = 2
    /\ direct_calls[2] = DirectCall(TRUE)

(* C11: the calls of a run before the poll loop come in the order direct    *)
(* message, conversation list, conversation create (if any), participant    *)
(* list, participant create (if any), each issued only after the one before *)
(* it returned; no conversation call is issued before the direct message    *)
(* was sent, and no tick happens before the binding is in place.            *)
SetupRank(op) ==
    CASE op = "messages.create" -> 1
      [] op = "conversations.list" -> 2
      [] op = "conversations.create" -> 3
      [] op = "participants.list" -> 4
      [] op = "participants.create" -> 5

C11_CallOrder ==
    LET n == Len(setup_calls)
        op(i) == setup_calls[i].op
    IN  /\ n >= 1 => op(1) = "messages.create"
        /\ n >= 2 => op(2) = "conversations.list"
        /\ \A i \in 1..n - 1 :
              /\ setup_calls[i].ok
              /\ SetupRank(op(i)) < SetupRank(op(i + 1))
              /\ op(i + 1) = "participants.create" => op(i) = "participants.list"
              /\ op(i + 1) = "participants.list" =>
                    op(i) \in { "conversations.list", "conversations.create" }
        /\ (Ticked \/ pc \in { "list_messages", "create_message" }) =>
              /\ n >= 3
              /\ setup_calls[n].ok
              /\ op(n) \in { "participants.list", "participants.create" }
              /\ \E i \in 1..Len(remote_participants) :
                    remote_participants[i].address = PHONE_NUMBER

C11_Witness ==
    /\ Ticked
    /\ [i \in 1..Len(setup_calls) |-> setup_calls[i].op] =
         << "messages.create", "conversations.list", "conversations.create",
            "participants.list", "participants.create" >>
    /\ tick_call = ReplyCall

(* C12: a provider that holds at most one conversation labelled             *)
(* 'Friendly Conversation' still holds at most one after every step of      *)
(* every run, failed and restarted runs included; a conversation is created *)
(* only when no conversation carries the label.                             *)
CountLabel(convs) ==
    Cardinality({ i \in 1..Len(convs) : convs[i].friendly_name = Label })

C12_AtMostOneConversation ==
    [][ /\ CountLabel(remote_conversations) <= 1 =>
              CountLabel(remote_conversations') <= 1
        /\ remote_conversations' # remote_conversations =>
              /\ CountLabel(remote_conversations) = 0
              /\ CountLabel(remote_conversations') = 1 ]_vars

C12_Witness ==
    /\ runs = 2
    /\ pc = "list_messages"
    /\ Len(existing_conversations) = MaxConvs + 1
    /\ CountLabel(existing_conversations) = 1
    /\ existing_conversations[MaxConvs + 1].friendly_name = Label
    /\ remote_conversations = existing_conversations

(* C13: the canonical conversation never holds two bindings for the         *)
(* configured address, and holds exactly one from the moment a run has      *)
(* finished its setup, whatever runs failed and were restarted before.      *)
CountBindings(parts, address) ==
    Cardinality({ i \in 1..Len(parts) : parts[i].address = address })

SetupCompleted ==
    \/ pc \in { "start_thread", "list_messages", "create_message" }
    \/ Ticked

C13_OneBinding ==
    /\ CountBindings(remote_participants, PHONE_NUMBER) <= 1
    /\ SetupCompleted => CountBindings(remote_participants, PHONE_NUMBER) = 1

C13_Witness ==
    /\ runs = 2
    /\ SetupCompleted
    /\ Len(remote_conversations) = MaxConvs + 1
    /\ NumCalls("conversations.create") = 0
    /\ NumCalls("participants.create") = 1
    /\ CountBindings(remote_participants, PHONE_NUMBER) = 1

(* C14: the cursor is None when a run starts and changes only in the step   *)
(* that posts a reply, which stores the reply and sets the cursor to the    *)
(* sid of the last listed message; so the cursor is always None or the sid  *)
(* of a stored message whose author is the configured address.              *)
CursorPointsAtInbound ==
    \/ last_sid = None
    \/ /\ last_sid \in 1..Len(remote_messages)
       /\ remote_messages[last_sid].sid = last_sid
       /\ remote_messages[last_sid].author = PHONE_NUMBER

CursorStep ==
    last_sid' # last_sid =>
        \/ /\ runs' = runs + 1
           /\ last_sid' = None
        \/ /\ pc = "create_message"
           /\ Last(messages).author = PHONE_NUMBER
           /\ Last(messages).sid # last_sid
           /\ last_sid' = Last(messages).sid
           /\ tick_call' = ReplyCall
           /\ remote_messages' =
                Append(remote_messages,
                       Message(Len(remote_messages) + 1, System, ReplyBody))

C14_CursorOnlyOnReply ==
    /\ last_sid = None
    /\ []CursorPointsAtInbound
    /\ [][CursorStep]_vars

C14_Witness ==
    /\ last_sid # None
    /\ tick_call = ReplyCall
    /\ Len(remote_messages) = last_sid + 1
    /\ remote_messages[last_sid].author = PHONE_NUMBER
    /\ remote_messages[last_sid + 1].author = System

(* C15: a restarted run starts with the cursor None, yet no message is      *)
(* answered twice: every answered message is a stored message of the        *)
(* configured address that has a later message after it (its reply at the   *)
(* latest), so it is never the newest message a later tick or run lists.    *)
C15_NoSecondReply ==
    /\ \A i, j \in 1..Len(replied_to) : i # j => replied_to[i] # replied_to[j]
    /\ \A i \in 1..Len(replied_to) :
          /\ replied_to[i] \in 1..Len(remote_messages) - 1
          /\ remote_messages[replied_to[i]].author = PHONE_NUMBER
    /\ (pc = "send" /\ runs > 1) => last_sid = None

AnsweredAndListed ==
    \E i \in 1..Len(replied_to) : \E k \in 1..Len(messages) :
        messages[k].sid = replied_to[i]

C15_Witness ==
    /\ runs = 2
    /\ Ticked
    /\ sid_before = None
    /\ last_sid = None
    /\ pc = "list_messages"
    /\ tick_call = NoCall
    /\ Len(replied_to) = 1
    /\ AnsweredAndListed

(* C15 as stated: the restarted run, its cursor lost, takes the message    *)
(* answered by the earlier run for an unseen one and replies to it.         *)
C15_RestartRepliesAgain ==
    ( /\ runs = 2
      /\ Ticked
      /\ sid_before = None
      /\ Len(replied_to) = 1
      /\ tick_call = NoCall
      /\ AnsweredAndListed )
    => /\ pc = "create_message"
       /\ Last(messages).sid = replied_to[1]

(* C16: format_number leaves alone every 'whatsapp:' that is not at the     *)
(* start of its argument: for an argument that does not start with the      *)
(* token (nor with a blank) the result is the prefix followed by the        *)
(* trimmed argument, as 'strip the leading prefix, trim, prepend' gives.    *)
strip_leading_trim_prepend(n) ==
    Prefix \o Strip(IF StartsWith(n, Prefix)
                    THEN SubSeq(n, Len(Prefix) + 1, Len(n))
                    ELSE n)

C16_InnerTokenKept ==
    ( /\ Len(formatted) >= 1
      /\ number # << >>
      /\ Head(number) \notin Whitespace
      /\ ~StartsWith(number, Prefix) )
    => formatted[1] = strip_leading_trim_prepend(number)

(* C17: when the listed conversations hold several entries labelled         *)
(* 'Friendly Conversation', the run uses the one that comes first in the    *)
(* list, whatever the order of the list, and issues no create call.         *)
C17_FirstOfSeveral ==
    ( /\ Listed("conversations.list")
      /\ CountLabel(existing_conversations) >= 2 )
    => /\ \E i \in 1..Len(existing_conversations) :
             /\ existing_conversations[i].friendly_name = Label
             /\ \A j \in 1..i - 1 : existing_conversations[j].friendly_name # Label
             /\ conversation = existing_conversations[i].sid
       /\ NumCalls("conversations.create") = 0
       /\ pc = "list_participants"
       /\ remote_conversations = existing_conversations

C17_Witness ==
    /\ existing_conversations = << Conversation(2, Label), Conversation(1, Label) >>
    /\ conversation = 2
    /\ pc = "list_participants"

(* C18: in a run without provider errors whose loop keeps ticking, a        *)
(* message of the configured address that is the newest of the conversation *)
(* is eventually answered, unless another message was appended after it     *)
(* before the loop got to it; the cursor never holds the sid of the newest  *)
(* message, so the cursor test never withholds that reply.                  *)
MaxStored == 2 * MaxMsgs

Answered(k) == \E i \in 1..Len(replied_to) : replied_to[i] = k

NewestFromUser(k) ==
    /\ Len(remote_messages) = k
    /\ remote_messages[k].author = PHONE_NUMBER

CursorNotNewest ==
    last_sid # None => last_sid < Len(remote_messages)

C18_NewestEventuallyAnswered ==
    /\ []CursorNotNewest
    /\ \A k \in 1..MaxStored :
          NewestFromUser(k) ~> (Answered(k) \/ Len(remote_messages) > k)

C18_Witness ==
    /\ ~exited
    /\ pc = "list_messages"
    /\ Ticked
    /\ tick_call = NoCall
    /\ last_sid # None
    /\ sid_before = last_sid
    /\ Answered(last_sid)
    /\ Len(messages) = last_sid + 1
    /\ Len(replied_to) = MaxMsgs

(* C19: src/app.py and src/twillioexplanation.py normalise every configured *)
(* value to the same address and, from every state either of them reaches,  *)
(* the step one script takes is the step the other would take: the same     *)
(* provider call with the same arguments, the same locals and cursor next.  *)
OtherEntry == IF entry = "app" THEN "explanation" ELSE "app"

SameNormalisation ==
    \A n \in EnvPhoneNumbers \cup EnvMsNumbers :
        normalized("app", n) = normalized("explanation", n)

C19_EntryPointsAgree ==
    /\ SameNormalisation
    /\ [][ /\ list_conversations => list_conversations_of(OtherEntry)
           /\ list_participants => list_participants_of(OtherEntry)
           /\ list_messages => list_messages_of(OtherEntry) ]_vars

C19_Witness ==
    /\ entry = "app"
    /\ liveness_thread
    /\ tick_call = ReplyCall
    /\ last_sid = Last(messages).sid
    /\ Last(remote_messages).author = System

====
